---------------------------- MODULE Spec2Model ----------------------------
(***************************************************************************)
(* Generators of MrCroxx/yay: the acknowledged counter                     *)
(* (src/generator/acknowledge.rs), the plain counter                       *)
(* (src/generator/counter.rs) and the sequential generator                 *)
(* (src/generator/sequential.rs); and the workload engine that uses them   *)
(* (src/workload.rs): insert() with its retry loop, transaction() with the *)
(* five operations, next_key_num and verify_row.  The storage backend is   *)
(* the environment: each of its calls succeeds or fails, and a read        *)
(* returns any row.                                                        *)
(*                                                                         *)
(* The generators are instantiated by macro for every integer type.  The   *)
(* model keeps the arithmetic of the code and scales the widths down: the  *)
(* unsigned type has TypeBits-many bits (usize in the source), the window  *)
(* has WINDOW_SIZE slots (1 << 20 in the source).  Plain `+`/`-` on the    *)
(* integer type panic on overflow in a build with overflow checks (debug)  *)
(* and wrap in a build without them (release); atomic fetch_add wraps in   *)
(* both.  `build` is chosen once, in Init.                                 *)
(***************************************************************************)
EXTENDS Integers, Sequences, FiniteSets, TLC

\* ------------------------------------------------------------------ bounds
\* Worker threads calling into the generators.
NumThreads == 2
\* Calls to next() of the (acknowledged) counter in one run.
MaxIssue == 5
\* Calls of acknowledge(v) for a v that was acknowledged before, in one run.
MaxDup == 1
\* Calls to next() of the sequential generator in one run.
MaxSeqCalls == 6
\* The widest range of a uniform generator: upper_bound - lower_bound.
UniformWidth == 3
\* The largest config.zero_padding.
MaxPadding == 4
\* The largest size asked of build_deterministic_value.
MaxSize == 8
\* The longest list of choices of a discrete generator, the largest weight
\* of a choice, and the calls of next() in one run.
MaxChoices == 3
MaxWeight == 2
MaxDraws == 2

Threads == 1..NumThreads

\* ------------------------------------------------------- the integer type
\* $type of the macro: an unsigned type of TypeBits bits (usize, scaled).
TypeBits == 4
TypeMod == 2 ^ TypeBits
TypeMax == TypeMod - 1
Values == 0..TypeMax

\* The outcome of an arithmetic operation that panicked.
PANIC == -1

Builds == {"debug", "release"}

\* Two's complement wrapping of an unsigned result.
Wrap(x) == x % TypeMod

\* `a + b` / `a - b` of the integer type, x the mathematical result: a panic
\* with overflow checks, wrapping without.
Arith(x, b) ==
    IF x \in Values THEN x
    ELSE IF b = "debug" THEN PANIC
    ELSE Wrap(x)

\* AtomicXxx::fetch_add(1): the new value of the cell; wraps in every build.
FetchAdd(c) == Wrap(c + 1)

\* ------------------------------------------------------------ the window
WINDOW_SIZE == 4
WINDOW_MASK == WINDOW_SIZE - 1
Slots == 0..WINDOW_MASK

\* `val as usize & Self::WINDOW_MASK` (WINDOW_SIZE is a power of two).
SlotOf(v) == v % WINDOW_SIZE

VARIABLES
    build,      \* overflow checks on ("debug") or off ("release")
    start,      \* the argument of new(start)
    constructed,\* new(start) returned (it did not panic)
    counter,    \* AcknowledgedCounter.counter
    windows,    \* AcknowledgedCounter.windows
    limit,      \* AcknowledgedCounter.limit (the value behind the RwLock)
    writer,     \* the thread holding limit's write lock, 0 for none
    readers,    \* the threads holding limit's read lock
    pc,         \* each thread's position
    val,        \* acknowledge(val) of the call in progress
    index,      \* `index` of the advance loop
    \* history (not program state)
    issued,     \* the values next() has returned
    acked,      \* the values whose acknowledge() has marked its slot
    dups,       \* the calls acknowledge(v) made for an already acknowledged v
    dupSurvived,\* acknowledge(v) was called after an acknowledge(v) had returned,
                \* and it did not panic
    overWindow, \* next() returned a value above last() + WINDOW_SIZE
    skipReader, \* a try_write failed although no acknowledger held the lock
    \* the plain counter (counter.rs)
    c_start,    \* the argument of Counter::new(start)
    c_counter,  \* Counter.counter
    c_hist,     \* history: <<thread, value>> of every next(), in order
    c_last,     \* what last() returned since the latest next(), NONE if not called
    \* the sequential generator (sequential.rs)
    s_ty,       \* the integer type it is instantiated for
    s_start,    \* Sequential.start
    s_end,      \* Sequential.end
    s_val,      \* Sequential.val
    s_out,      \* history: the values next() returned, in order
    \* the workload engine (workload.rs)
    w_cfg,      \* the configuration CoreWorkload::new was given
    w_pc,       \* each thread's position inside insert() / transaction()
    w_op,       \* the operation of the thread's current or latest call
    w_key,      \* key_num of that call
    w_fields,   \* the fields a Read or ReadModifyWrite asked the backend for
    w_cells,    \* the cells the backend's read returned
    w_log,      \* history: the events of that call, in order
    w_ret,      \* what the latest call returned, "none" while it runs
    w_new,      \* CoreWorkload::new: "pending", "built", or the panic it ended in
    \* a function of the code applied to arguments
    f_arg,      \* the arguments
    f_res       \* history: the results of the calls made with them so far

ackVars == <<start, constructed, counter, windows, limit, writer, readers,
             pc, val, index, issued, acked, dups, dupSurvived, overWindow,
             skipReader>>

ctrVars == <<c_start, c_counter, c_hist, c_last>>

\* The construction of the engine and the function calls: no step of a
\* generator or of an engine call changes them.
moreVars == <<w_new, f_arg, f_res>>

seqVars == <<s_ty, s_start, s_end, s_val, s_out, moreVars>>

wlVars == <<w_cfg, w_pc, w_op, w_key, w_fields, w_cells, w_log, w_ret>>

vars == <<build, ackVars, ctrVars, seqVars, wlVars>>

\* ---------------------------------------------------------------- new()
\* AcknowledgedCounter::new: limit is `start - 1`.
NewLimit(s, b) == Arith(s - 1, b)

\* The values new(start) is called with: the low end of the type (0 is the
\* workload's insert_start default), and the high end (record_count = 0
\* becomes usize::MAX in CoreWorkload::new).
StartSet == {0, 1, TypeMax}

InitAck(S) ==
    /\ start \in S
    /\ constructed = (NewLimit(start, build) # PANIC)
    /\ counter = start
    /\ windows = [s \in Slots |-> FALSE]
    /\ limit = IF NewLimit(start, build) = PANIC THEN 0 ELSE NewLimit(start, build)
    /\ writer = 0
    /\ readers = {}
    /\ pc = [t \in Threads |-> "idle"]
    /\ val = [t \in Threads |-> 0]
    /\ index = [t \in Threads |-> 0]
    /\ issued = {}
    /\ acked = {}
    /\ dups = 0
    /\ dupSurvived = FALSE
    /\ overWindow = FALSE
    /\ skipReader = FALSE


\* ---------------------------------------------------------------- next()
\* fetch_add returns the value before the increment.
AckNext(t) ==
    /\ constructed
    /\ pc[t] = "idle"
    /\ Cardinality(issued) < MaxIssue
    /\ counter' = FetchAdd(counter)
    /\ issued' = issued \cup {counter}
    /\ overWindow' = (overWindow \/ counter > limit + WINDOW_SIZE)
    /\ UNCHANGED <<ctrVars, seqVars>>
    /\ UNCHANGED <<build, start, constructed, windows, limit, writer, readers, pc,
                   val, index, acked, dups, dupSurvived, skipReader>>

\* ---------------------------------------------------------------- last()
\* `*self.limit.read()`: the read lock is taken (it waits while a writer
\* holds the lock), the value copied, the lock released.
LastAcquire(t) ==
    /\ constructed
    /\ pc[t] = "idle"
    /\ writer = 0
    /\ readers' = readers \cup {t}
    /\ pc' = [pc EXCEPT ![t] = "last_read"]
    /\ UNCHANGED <<ctrVars, seqVars>>
    /\ UNCHANGED <<build, start, constructed, counter, windows, limit, writer,
                   val, index, issued, acked, dups, dupSurvived, overWindow,
                   skipReader>>

LastRelease(t) ==
    /\ pc[t] = "last_read"
    /\ readers' = readers \ {t}
    /\ pc' = [pc EXCEPT ![t] = "idle"]
    /\ UNCHANGED <<ctrVars, seqVars>>
    /\ UNCHANGED <<build, start, constructed, counter, windows, limit, writer,
                   val, index, issued, acked, dups, dupSurvived, overWindow,
                   skipReader>>

\* ---------------------------------------------------------- acknowledge()
\* A thread that is inside acknowledge(v).
InAck(t) == pc[t] \in {"ack_try", "ack_scan", "ack_clear", "ack_write"}

\* `if self.windows[slot].fetch_or(true) { panic!(..) }`
FetchOrPanics(old) == old

\* Lines 56-59: mark the slot; panic if it was marked already.
AckFetchOr(t, v) ==
    /\ constructed
    /\ pc[t] = "idle"
    /\ v \in issued
    /\ v \in acked => dups < MaxDup
    /\ LET dup == v \in acked /\ \A u \in Threads : ~(InAck(u) /\ val[u] = v)
           old == windows[SlotOf(v)]
       IN  /\ windows' = [windows EXCEPT ![SlotOf(v)] = TRUE]
           /\ acked' = acked \cup {v}
           /\ dups' = IF v \in acked THEN dups + 1 ELSE dups
           /\ dupSurvived' = (dupSurvived \/ (dup /\ ~FetchOrPanics(old)))
           /\ pc' = [pc EXCEPT ![t] = IF FetchOrPanics(old) THEN "panicked" ELSE "ack_try"]
           /\ val' = [val EXCEPT ![t] = IF FetchOrPanics(old) THEN 0 ELSE v]
    /\ UNCHANGED <<ctrVars, seqVars>>
    /\ UNCHANGED <<build, start, constructed, counter, limit, writer, readers,
                   index, issued, overWindow, skipReader>>

\* A try_write that looks at the readers only.
TryWriteAmongWriters ==
    readers = {}

\* parking_lot's RwLock::try_write: it succeeds only when nobody holds the
\* lock, for reading or for writing.
TryWriteSucceeds ==
    writer = 0 /\ readers = {}

\* Lines 61-63: try_write; on success `index = *limit + 1`, on failure the
\* call returns.
AckTryWrite(t) ==
    /\ pc[t] = "ack_try"
    /\ IF TryWriteSucceeds
       THEN LET i == Arith(limit + 1, build)
            IN  IF i = PANIC
                THEN /\ pc' = [pc EXCEPT ![t] = "panicked"]
                     /\ val' = [val EXCEPT ![t] = 0]
                     /\ UNCHANGED <<writer, index, skipReader>>
                ELSE /\ writer' = t
                     /\ index' = [index EXCEPT ![t] = i]
                     /\ pc' = [pc EXCEPT ![t] = "ack_scan"]
                     /\ UNCHANGED <<val, skipReader>>
       ELSE /\ pc' = [pc EXCEPT ![t] = "idle"]
            /\ val' = [val EXCEPT ![t] = 0]
            /\ skipReader' = (skipReader \/ writer = 0)
            /\ UNCHANGED <<writer, index>>
    /\ UNCHANGED <<ctrVars, seqVars>>
    /\ UNCHANGED <<build, start, constructed, counter, windows, limit, readers,
                   issued, acked, dups, dupSurvived, overWindow>>

\* The loop condition `index & MASK != stop`, stop being `*limit & MASK`.
ScanContinues(i, lim) == SlotOf(i) # SlotOf(lim)

\* Lines 64-68: the loop condition and the load of the slot.
AckScan(t) ==
    /\ pc[t] = "ack_scan"
    /\ pc' = [pc EXCEPT ![t] =
                IF ScanContinues(index[t], limit) /\ windows[SlotOf(index[t])]
                THEN "ack_clear" ELSE "ack_write"]
    /\ UNCHANGED <<ctrVars, seqVars>>
    /\ UNCHANGED <<build, start, constructed, counter, windows, limit, writer,
                   readers, val, index, issued, acked, dups, dupSurvived,
                   overWindow, skipReader>>

\* Lines 69-70: the slot is cleared and `index += 1`; a panic unwinds and
\* drops the write guard.
AckClear(t) ==
    /\ pc[t] = "ack_clear"
    /\ windows' = [windows EXCEPT ![SlotOf(index[t])] = FALSE]
    /\ LET i == Arith(index[t] + 1, build)
       IN  IF i = PANIC
           THEN /\ pc' = [pc EXCEPT ![t] = "panicked"]
                /\ val' = [val EXCEPT ![t] = 0]
                /\ index' = [index EXCEPT ![t] = 0]
                /\ writer' = 0
           ELSE /\ pc' = [pc EXCEPT ![t] = "ack_scan"]
                /\ index' = [index EXCEPT ![t] = i]
                /\ UNCHANGED <<val, writer>>
    /\ UNCHANGED <<ctrVars, seqVars>>
    /\ UNCHANGED <<build, start, constructed, counter, limit, readers, issued,
                   acked, dups, dupSurvived, overWindow, skipReader>>

\* `*limit = index - 1`
AdvancedLimit(i, b) == Arith(i - 1, b)

\* Lines 72-73: the limit is written and the write guard dropped.
AckWrite(t) ==
    /\ pc[t] = "ack_write"
    /\ LET l == AdvancedLimit(index[t], build)
       IN  /\ limit' = IF l = PANIC THEN limit ELSE l
           /\ pc' = [pc EXCEPT ![t] = IF l = PANIC THEN "panicked" ELSE "idle"]
    /\ writer' = 0
    /\ val' = [val EXCEPT ![t] = 0]
    /\ index' = [index EXCEPT ![t] = 0]
    /\ UNCHANGED <<ctrVars, seqVars>>
    /\ UNCHANGED <<build, start, constructed, counter, windows, readers, issued,
                   acked, dups, dupSurvived, overWindow, skipReader>>

\* One step of thread t on the acknowledged counter.
AckStep(t) ==
    \/ AckNext(t)
    \/ LastAcquire(t)
    \/ LastRelease(t)
    \/ \E v \in Values : AckFetchOr(t, v)
    \/ AckTryWrite(t)
    \/ AckScan(t)
    \/ AckClear(t)
    \/ AckWrite(t)

\* The acknowledged counter before any use; with `constructed` false, unused.
AckOff ==
    /\ start = 0
    /\ constructed = FALSE
    /\ counter = 0
    /\ windows = [s \in Slots |-> FALSE]
    /\ limit = 0
    /\ writer = 0
    /\ readers = {}
    /\ pc = [t \in Threads |-> "idle"]
    /\ val = [t \in Threads |-> 0]
    /\ index = [t \in Threads |-> 0]
    /\ issued = {}
    /\ acked = {}
    /\ dups = 0
    /\ dupSurvived = FALSE
    /\ overWindow = FALSE
    /\ skipReader = FALSE

\* ------------------------------------------------------------- Counter
\* last() has not been called since the latest next().
NONE == PANIC - 1

\* Counter::new(start)
InitCounter(S) ==
    /\ c_start \in S
    /\ c_counter = c_start
    /\ c_hist = <<>>
    /\ c_last = NONE

CtrOff == InitCounter({0})

\* Counter::next: fetch_add(1) returns the value before the increment.
CounterNext(t) ==
    /\ Len(c_hist) < MaxIssue
    /\ c_counter' = FetchAdd(c_counter)
    /\ c_hist' = Append(c_hist, <<t, c_counter>>)
    /\ c_last' = NONE
    /\ UNCHANGED <<build, c_start, ackVars, seqVars>>

\* `self.counter.load(Ordering::Relaxed) - 1`
CounterLastValue(c, b) == Arith(c - 1, b)

\* Counter::last
CounterLast(t) ==
    /\ c_last' = CounterLastValue(c_counter, build)
    /\ UNCHANGED <<build, c_start, c_counter, c_hist, ackVars, seqVars>>

\* ---------------------------------------------------------- Sequential
\* $type of the macro as the sequential generator sees it: an unsigned and
\* a signed type of TypeBits bits.
Types == {"unsigned", "signed"}
TyMin(ty) == IF ty = "unsigned" THEN 0 ELSE -(TypeMod \div 2)
TyMax(ty) == IF ty = "unsigned" THEN TypeMax ELSE (TypeMod \div 2) - 1

\* What next() yields when it panics.
SEQ_PANIC == TypeMod + 1

WrapTy(ty, x) == ((x - TyMin(ty)) % TypeMod) + TyMin(ty)

\* `+` / `-` of the type: an operand that is a panic stays one.
ArithTy(ty, x, ok, b) ==
    IF ~ok THEN SEQ_PANIC
    ELSE IF x >= TyMin(ty) /\ x <= TyMax(ty) THEN x
    ELSE IF b = "debug" THEN SEQ_PANIC
    ELSE WrapTy(ty, x)

\* Rust's `%`: the remainder has the sign of the dividend; n = 0 panics.
RustRem(a, n) ==
    IF n = 0 THEN SEQ_PANIC
    ELSE LET m == IF n < 0 THEN -n ELSE n
         IN  IF a >= 0 THEN a % m ELSE -((-a) % m)

\* `self.start + (val % (self.end - self.start + 1))`
SeqValue(ty, s, e, v, b) ==
    LET d == ArithTy(ty, e - s, TRUE, b)
        n == ArithTy(ty, d + 1, d # SEQ_PANIC, b)
        r == IF n = SEQ_PANIC THEN SEQ_PANIC ELSE RustRem(v, n)
    IN  ArithTy(ty, s + r, r # SEQ_PANIC, b)

\* The start of the tally: Sequential::new sets `val: $atype::new(start)`.
SeqNewVal(s) == s

\* The ranges new(start, end) is called with: short ranges at the low end
\* of each type, around zero, and close enough to the type's maximum for
\* the tally to wrap within MaxSeqCalls calls.
SeqStarts(ty) == IF ty = "unsigned" THEN {0, 1, 2, TypeMax - 3}
                 ELSE {-2, -1, 0, 1, TyMax(ty) - 3}

\* No function call, and an engine that is built.
NoResult == {}

MoreOff ==
    /\ w_new = "built"
    /\ f_arg = <<>>
    /\ f_res = NoResult

InitSeq ==
    /\ MoreOff
    /\ s_ty \in Types
    /\ s_start \in SeqStarts(s_ty)
    /\ s_end \in s_start..(s_start + 2)
    /\ s_val = SeqNewVal(s_start)
    /\ s_out = <<>>

SeqUnused ==
    /\ s_ty = "unsigned"
    /\ s_start = 0
    /\ s_end = 0
    /\ s_val = 0
    /\ s_out = <<>>

SeqOff == MoreOff /\ SeqUnused

\* Sequential::next: fetch_add on the tally, then the value.
SeqNext ==
    /\ Len(s_out) < MaxSeqCalls
    /\ s_val' = WrapTy(s_ty, s_val + 1)
    /\ s_out' = Append(s_out, SeqValue(s_ty, s_start, s_end, s_val, build))
    /\ UNCHANGED <<build, s_ty, s_start, s_end, moreVars, ackVars, ctrVars>>

\* ------------------------------------------------- the workload engine
\* enum Op, in the order CoreWorkload::new pushes the choices.
Ops == <<"READ", "UPDATE", "INSERT", "SCAN", "READMODIFYWRITE">>
OpSet == {Ops[i] : i \in 1..Len(Ops)}

\* `if config.record_count == 0 { usize::MAX } else { config.record_count }`
RecordCount(cfg) == IF cfg.record_count = 0 THEN TypeMax ELSE cfg.record_count

\* `record_count - insert_start`
InsertCount(cfg, b) == Arith(RecordCount(cfg) - cfg.insert_start, b)

\* The bounds of the key chooser: `insert_start` and
\* `insert_start + insert_count - 1`.
KeyLower(cfg) == cfg.insert_start
KeyUpper(cfg, b) ==
    LET c == InsertCount(cfg, b)
        s == IF c = PANIC THEN PANIC ELSE Arith(cfg.insert_start + c, b)
    IN  IF s = PANIC THEN PANIC ELSE Arith(s - 1, b)

\* The configurations CoreWorkload::new accepts without a panic.
Constructs(cfg, b) ==
    /\ KeyUpper(cfg, b) # PANIC
    /\ NewLimit(RecordCount(cfg), b) # PANIC

\* The choices with the Scan pushed under the Insert proportion.
ChoicesMixedUp(cfg) ==
    SelectSeq([i \in 1..Len(Ops) |->
                  <<Ops[i], cfg.proportion[IF Ops[i] = "SCAN" THEN "INSERT" ELSE Ops[i]]>>],
              LAMBDA c : c[2] > 0)

\* The choices of the operation chooser, <<operation, weight>>: one is
\* pushed only for a proportion above zero.  The proportions (f64 in the
\* source) are whole numbers here.
Choices(cfg) ==
    SelectSeq([i \in 1..Len(Ops) |-> <<Ops[i], cfg.proportion[Ops[i]]>>],
              LAMBDA c : c[2] > 0)

\* DiscreteGenerator::new: the sum of the weights.
RECURSIVE DiscreteSum(_)
DiscreteSum(ch) == IF ch = <<>> THEN 0 ELSE Head(ch)[2] + DiscreteSum(Tail(ch))

\* A scan that also stops when the target equals the accumulated weight.
RECURSIVE DiscreteScanInclusive(_, _, _)
DiscreteScanInclusive(ch, acc, target) ==
    IF ch = <<>> THEN "unreachable"
    ELSE IF target <= acc + Head(ch)[2] THEN Head(ch)[1]
    ELSE DiscreteScanInclusive(Tail(ch), acc + Head(ch)[2], target)

\* DiscreteGenerator::next for a drawn `target`: the first choice whose
\* accumulated weight is above the target.
RECURSIVE DiscreteScan(_, _, _)
DiscreteScan(ch, acc, target) ==
    IF ch = <<>> THEN "unreachable"
    ELSE IF target < acc + Head(ch)[2] THEN Head(ch)[1]
    ELSE DiscreteScan(Tail(ch), acc + Head(ch)[2], target)

DiscreteNext(ch, target) == DiscreteScan(ch, 0, target)

\* `gen_range(0.0..self.sum)`: the targets that can be drawn; the range is
\* empty, and the draw panics, when the sum is zero.
Targets(ch) == 0..(DiscreteSum(ch) - 1)

\* ------------------------------------------------------ keys and values
\* Strings are sequences of characters; a decimal digit is its own value.
COLON == 10
LETTER == COLON + 1

\* config.field_count, and the names "field{i}" of the fields.
FieldCount == 2
Fields == 1..FieldCount
FieldName(f) == <<LETTER, f - 1>>

\* config.max_field_length, the length a constant field length generator
\* yields.
FieldLength == 6

\* `format!("{n}")`
RECURSIVE Digits(_)
Digits(n) == IF n < 10 THEN <<n>> ELSE Digits(n \div 10) \o <<n % 10>>

\* u64, and usize on a target where it is as wide, and u8: the byte of
\* fnvhash64.
WordBits == 8
ByteBits == 2
WordMod == 2 ^ WordBits
ByteMod == 2 ^ ByteBits

\* The low bits of 0xCBF29CE484222325 and of 1099511628211 = 0x100000001B3.
FNV_OFFSET_BASIS_64 == 37
FNV_PRIME_64 == 179

\* `^` on unsigned integers.
RECURSIVE Xor(_, _)
Xor(a, b) ==
    IF a = 0 THEN b
    ELSE IF b = 0 THEN a
    ELSE ((a + b) % 2) + 2 * Xor(a \div 2, b \div 2)

\* The loop of fnvhash64: one round per byte of the value, low byte first.
RECURSIVE FnvRounds(_, _, _)
FnvRounds(hash, v, rounds) ==
    IF rounds = 0 THEN hash
    ELSE FnvRounds(Xor((hash * FNV_PRIME_64) % WordMod, v % ByteMod),
                   v \div ByteMod, rounds - 1)

Fnvhash64(v) == FnvRounds(FNV_OFFSET_BASIS_64, v, WordBits \div ByteBits)

\* `format!("{n:0width$}")`
RECURSIVE ZeroPad(_, _)
ZeroPad(s, width) == IF Len(s) >= width THEN s ELSE ZeroPad(<<0>> \o s, width)

\* build_key_name without the zero padding.
KeyNameUnpadded(insert_order, zero_padding, key_num) ==
    Digits(IF insert_order # "hashed" THEN key_num ELSE Fnvhash64(key_num))

\* build_key_name, of a workload built with these insert_order and
\* zero_padding.
KeyName(insert_order, zero_padding, key_num) ==
    ZeroPad(Digits(IF insert_order # "hashed" THEN key_num ELSE Fnvhash64(key_num)),
            zero_padding)

\* build_key_name with ordered inserts and no padding beyond one digit.
BuildKeyName(k) == KeyName("ordered", 1, k)

\* `ahash::RandomState::with_seed(0).hash_one(&ret)`: a function of the
\* string (the hasher is a library's; any function of the string stands
\* for it).
RECURSIVE HashOne(_)
HashOne(s) == IF s = <<>> THEN 0 ELSE (Head(s) + 3 * HashOne(Tail(s))) % TypeMod

\* The loop of build_deterministic_value.
RECURSIVE DetFill(_, _)
DetFill(ret, size) ==
    IF Len(ret) < size
    THEN DetFill((ret \o <<COLON>>) \o Digits(HashOne(ret \o <<COLON>>)), size)
    ELSE ret

\* The two bytes of a character outside ASCII: its lead byte and its
\* continuation byte.
LEAD == LETTER + 1
CONT == LEAD + 1
WideChar == <<LEAD, CONT>>

\* The string of a call that panicked instead of returning one.
Panicked == <<PANIC>>

\* `str::is_char_boundary`
IsCharBoundary(s, i) == i = 0 \/ i = Len(s) \/ (i < Len(s) /\ s[i + 1] # CONT)

\* `String::truncate`, which asserts that the new length is on a character
\* boundary.
Truncate(s, new_len) ==
    IF new_len > Len(s) THEN s
    ELSE IF IsCharBoundary(s, new_len) THEN SubSeq(s, 1, new_len)
    ELSE Panicked

BuildDeterministicValue(size, key, field) ==
    Truncate(DetFill((key \o <<COLON>>) \o field, size), size)

\* What a backend may hand back for one field of a row: the value the
\* deterministic builder gives, that value with its first or its last byte
\* changed, or that value cut short.
CellValues(key, f) ==
    LET e == BuildDeterministicValue(FieldLength, key, FieldName(f))
    IN  { e,
          [e EXCEPT ![1] = (e[1] + 1) % 10],
          [e EXCEPT ![Len(e)] = LETTER],
          SubSeq(e, 1, Len(e) - 1) }

\* The rows a backend's read may return: any subset of the fields, each
\* with one of these values.
Rows(key) ==
    UNION { { c \in [D -> UNION {CellValues(key, f) : f \in D}] :
                \A f \in D : c[f] \in CellValues(key, f) } : D \in SUBSET Fields }

\* The row the deterministic builder gives for the asked fields.
GoodRow(key, fields) ==
    [f \in fields |-> BuildDeterministicValue(FieldLength, key, FieldName(f))]

\* The fields a Read or ReadModifyWrite may ask for (the field chooser
\* draws one when read_all_fields is off).
ReadFields(cfg) ==
    IF ~cfg.read_all_fields THEN {{f} : f \in Fields}
    ELSE IF cfg.data_integrity \/ cfg.read_all_fields_by_name THEN {Fields}
    ELSE {{}}

\* verify_row skipping the asked fields the row lacks.
VerifyRowSkipping(key, fields, cells) ==
    IF \E f \in fields \cap DOMAIN cells :
          cells[f] # BuildDeterministicValue(FieldLength, key, FieldName(f))
    THEN "verify_err"
    ELSE "panic"

\* verify_row: the first asked field that is missing or differs returns an
\* error; past the loop stands `todo!()`, which panics.
VerifyRow(key, fields, cells) ==
    IF \E f \in fields :
          \/ f \notin DOMAIN cells
          \/ cells[f] # BuildDeterministicValue(FieldLength, key, FieldName(f))
    THEN "verify_err"
    ELSE "panic"

\* The engine before any call.
NoRow == [f \in {} |-> <<>>]

WlIdle ==
    /\ w_pc = [t \in Threads |-> "idle"]
    /\ w_op = [t \in Threads |-> "none"]
    /\ w_key = [t \in Threads |-> 0]
    /\ w_fields = [t \in Threads |-> {}]
    /\ w_cells = [t \in Threads |-> NoRow]
    /\ w_log = [t \in Threads |-> <<>>]
    /\ w_ret = [t \in Threads |-> "none"]

DefaultProportion == [o \in OpSet |-> 0]

\* The engine unused.
WlOff ==
    /\ w_cfg = [record_count |-> 0, insert_start |-> 0,
                proportion |-> DefaultProportion, retry_limit |-> 0,
                data_integrity |-> FALSE, read_all_fields |-> TRUE,
                read_all_fields_by_name |-> FALSE]
    /\ WlIdle

\* --------------------------------------------------------- transaction()
\* A call returns r; a panic ends the thread.
Returned(t, r) ==
    /\ w_ret' = [w_ret EXCEPT ![t] = r]
    /\ w_key' = [w_key EXCEPT ![t] = 0]
    /\ w_pc' = [w_pc EXCEPT ![t] = IF r = "panic" THEN "dead" ELSE "idle"]

Logged(t, e) == w_log' = [w_log EXCEPT ![t] = Append(w_log[t], e)]

\* transaction(): the operation chooser draws the operation.  With no
\* choice the range of the draw is empty and gen_range panics.
TxnBegin(t) ==
    /\ w_pc[t] = "idle"
    /\ pc[t] = "idle"
    /\ LET ch == Choices(w_cfg)
       IN  IF Targets(ch) = {}
           THEN /\ w_op' = [w_op EXCEPT ![t] = "none"]
                /\ Returned(t, "panic")
           ELSE \E target \in Targets(ch) :
                   LET op == DiscreteNext(ch, target)
                   IN  /\ w_op' = [w_op EXCEPT ![t] = op]
                       /\ w_pc' = [w_pc EXCEPT ![t] =
                                     IF op \in {"INSERT", "SCAN"} THEN "next" ELSE "key"]
                       /\ w_ret' = [w_ret EXCEPT ![t] = "none"]
    /\ w_log' = [w_log EXCEPT ![t] = <<>>]
    /\ w_key' = [w_key EXCEPT ![t] = 0]
    /\ w_fields' = [w_fields EXCEPT ![t] = {}]
    /\ w_cells' = [w_cells EXCEPT ![t] = NoRow]
    /\ UNCHANGED <<build, ackVars, ctrVars, seqVars, w_cfg>>

\* next_key_num: the key chooser (uniform over its bounds) draws, then
\* last() takes the read lock.
KeyDraw(t) ==
    /\ w_pc[t] = "key"
    /\ LastAcquire(t)
    /\ \E k \in KeyLower(w_cfg)..KeyUpper(w_cfg, build) :
          w_key' = [w_key EXCEPT ![t] = k]
    /\ w_pc' = [w_pc EXCEPT ![t] = "key_last"]
    /\ UNCHANGED <<w_cfg, w_op, w_fields, w_cells, w_log, w_ret>>

\* `if key_num <= self.transaction_insert_key_sequencer.last() { break }`
KeyAccepted(k, last) == k <= last

\* next_key_num: last() returns, the key is accepted or drawn again.
KeyCheck(t) ==
    /\ w_pc[t] = "key_last"
    /\ LastRelease(t)
    /\ w_pc' = [w_pc EXCEPT ![t] = IF KeyAccepted(w_key[t], limit) THEN "db" ELSE "key"]
    /\ UNCHANGED <<w_cfg, w_op, w_key, w_fields, w_cells, w_log, w_ret>>

\* What a Read or ReadModifyWrite returns once its backend calls succeeded.
Verified(cfg, key, fields, cells) ==
    IF cfg.data_integrity THEN VerifyRow(key, fields, cells) ELSE "ok"

\* The rows the backend may return: under data integrity any row, else
\* the row is not looked at.
ReadRows(cfg, key) == IF cfg.data_integrity THEN Rows(key) ELSE {NoRow}

\* txn_read: db.read, `?`, verify_row.
TxnRead(t) ==
    /\ w_pc[t] = "db"
    /\ w_op[t] = "READ"
    /\ \E fields \in ReadFields(w_cfg) :
          /\ w_fields' = [w_fields EXCEPT ![t] = fields]
          /\ \/ /\ Logged(t, "read_err")
                /\ Returned(t, "backend_err")
                /\ UNCHANGED w_cells
             \/ \E row \in ReadRows(w_cfg, BuildKeyName(w_key[t])) :
                   /\ Logged(t, "read_ok")
                   /\ w_cells' = [w_cells EXCEPT ![t] = row]
                   /\ Returned(t, Verified(w_cfg, BuildKeyName(w_key[t]), fields, row))
    /\ UNCHANGED <<build, ackVars, ctrVars, seqVars, w_cfg, w_op>>

\* txn_update calling db.update again after a failure.
TxnUpdateAgain(t) ==
    /\ w_pc[t] = "db"
    /\ w_op[t] = "UPDATE"
    /\ \/ /\ Logged(t, "update_err")
          /\ IF Len(w_log[t]) = 0
             THEN UNCHANGED <<w_pc, w_ret, w_key>>
             ELSE Returned(t, "backend_err")
       \/ Logged(t, "update_ok") /\ Returned(t, "ok")
    /\ UNCHANGED <<build, ackVars, ctrVars, seqVars, w_cfg, w_op, w_fields,
                   w_cells>>

\* txn_update: db.update, its result returned.
TxnUpdate(t) ==
    /\ w_pc[t] = "db"
    /\ w_op[t] = "UPDATE"
    /\ \/ Logged(t, "update_err") /\ Returned(t, "backend_err")
       \/ Logged(t, "update_ok") /\ Returned(t, "ok")
    /\ UNCHANGED <<build, ackVars, ctrVars, seqVars, w_cfg, w_op, w_fields,
                   w_cells>>

\* txn_read_modify_read going on to db.update after a failed read.
TxnRmwReadOn(t) ==
    /\ w_pc[t] = "db"
    /\ w_op[t] = "READMODIFYWRITE"
    /\ \E fields \in ReadFields(w_cfg) :
          /\ w_fields' = [w_fields EXCEPT ![t] = fields]
          /\ \E row \in ReadRows(w_cfg, BuildKeyName(w_key[t])) :
                /\ Logged(t, "read_err") \/ Logged(t, "read_ok")
                /\ w_cells' = [w_cells EXCEPT ![t] = row]
                /\ w_pc' = [w_pc EXCEPT ![t] = "rmw_update"]
                /\ UNCHANGED <<w_ret, w_key>>
    /\ UNCHANGED <<build, ackVars, ctrVars, seqVars, w_cfg, w_op>>

\* txn_read_modify_read: db.read, `?`.
TxnRmwRead(t) ==
    /\ w_pc[t] = "db"
    /\ w_op[t] = "READMODIFYWRITE"
    /\ \E fields \in ReadFields(w_cfg) :
          /\ w_fields' = [w_fields EXCEPT ![t] = fields]
          /\ \/ /\ Logged(t, "read_err")
                /\ Returned(t, "backend_err")
                /\ UNCHANGED w_cells
             \/ \E row \in ReadRows(w_cfg, BuildKeyName(w_key[t])) :
                   /\ Logged(t, "read_ok")
                   /\ w_cells' = [w_cells EXCEPT ![t] = row]
                   /\ w_pc' = [w_pc EXCEPT ![t] = "rmw_update"]
                   /\ UNCHANGED <<w_ret, w_key>>
    /\ UNCHANGED <<build, ackVars, ctrVars, seqVars, w_cfg, w_op>>

\* txn_read_modify_read: db.update, `?`, verify_row.
TxnRmwUpdate(t) ==
    /\ w_pc[t] = "rmw_update"
    /\ \/ Logged(t, "update_err") /\ Returned(t, "backend_err")
       \/ /\ Logged(t, "update_ok")
          /\ Returned(t, Verified(w_cfg, BuildKeyName(w_key[t]), w_fields[t], w_cells[t]))
    /\ UNCHANGED <<build, ackVars, ctrVars, seqVars, w_cfg, w_op, w_fields,
                   w_cells>>

\* txn_insert and txn_scan: `self.transaction_insert_key_sequencer.next()`
TxnNext(t) ==
    /\ w_pc[t] = "next"
    /\ AckNext(t)
    /\ w_key' = [w_key EXCEPT ![t] = counter]
    /\ w_pc' = [w_pc EXCEPT ![t] = "db"]
    /\ Logged(t, "next")
    /\ UNCHANGED <<w_cfg, w_op, w_fields, w_cells, w_ret>>

\* txn_insert with `db.insert(..)?`: a failure returns at once.
TxnInsertDbTry(t) ==
    /\ w_pc[t] = "db"
    /\ w_op[t] = "INSERT"
    /\ \/ /\ Logged(t, "insert_err")
          /\ Returned(t, "backend_err")
       \/ /\ Logged(t, "insert_ok")
          /\ w_pc' = [w_pc EXCEPT ![t] = "ack"]
          /\ UNCHANGED <<w_ret, w_key>>
    /\ UNCHANGED <<build, ackVars, ctrVars, seqVars, w_cfg, w_op, w_fields,
                   w_cells>>

\* txn_insert: db.insert, its result kept in `res`.
TxnInsertDb(t) ==
    /\ w_pc[t] = "db"
    /\ w_op[t] = "INSERT"
    /\ Logged(t, "insert_err") \/ Logged(t, "insert_ok")
    /\ w_pc' = [w_pc EXCEPT ![t] = "ack"]
    /\ UNCHANGED <<build, ackVars, ctrVars, seqVars, w_cfg, w_op, w_key,
                   w_fields, w_cells, w_ret>>

\* txn_insert: acknowledge(key_num) is entered.
TxnInsertAck(t) ==
    /\ w_pc[t] = "ack"
    /\ AckFetchOr(t, w_key[t])
    /\ Logged(t, "ack")
    /\ w_pc' = [w_pc EXCEPT ![t] = "acking"]
    /\ UNCHANGED <<w_cfg, w_op, w_key, w_fields, w_cells, w_ret>>

\* txn_insert: acknowledge(key_num) runs.
TxnAckStep(t) ==
    /\ w_pc[t] = "acking"
    /\ AckTryWrite(t) \/ AckScan(t) \/ AckClear(t) \/ AckWrite(t)
    /\ UNCHANGED wlVars

\* `res` of txn_insert.
InsertResult(log) ==
    IF \E i \in 1..Len(log) : log[i] = "insert_ok" THEN "ok" ELSE "backend_err"

\* txn_insert: acknowledge returned, `res` is returned; a panic inside
\* acknowledge ends the thread.
TxnInsertReturn(t) ==
    /\ w_pc[t] = "acking"
    /\ pc[t] \in {"idle", "panicked"}
    /\ Returned(t, IF pc[t] = "panicked" THEN "panic" ELSE InsertResult(w_log[t]))
    /\ UNCHANGED <<build, ackVars, ctrVars, seqVars, w_cfg, w_op, w_fields,
                   w_cells, w_log>>

\* txn_scan: db.scan, `?`; the key number is not acknowledged.
TxnScan(t) ==
    /\ w_pc[t] = "db"
    /\ w_op[t] = "SCAN"
    /\ \/ Logged(t, "scan_err") /\ Returned(t, "backend_err")
       \/ Logged(t, "scan_ok") /\ Returned(t, "ok")
    /\ UNCHANGED <<build, ackVars, ctrVars, seqVars, w_cfg, w_op, w_fields,
                   w_cells>>

\* One step of thread t inside transaction().
TxnStep(t) ==
    \/ TxnBegin(t)
    \/ KeyDraw(t)
    \/ KeyCheck(t)
    \/ TxnRead(t)
    \/ TxnUpdate(t)
    \/ TxnRmwRead(t)
    \/ TxnRmwUpdate(t)
    \/ TxnNext(t)
    \/ TxnInsertDb(t)
    \/ TxnInsertAck(t)
    \/ TxnAckStep(t)
    \/ TxnInsertReturn(t)
    \/ TxnScan(t)

\* --------------------------------------------------------------- insert()
\* The calls of the closure `f` the retry loop has made.
Attempts(log) ==
    Cardinality({i \in 1..Len(log) : log[i] \in {"insert_ok", "insert_err"}})

\* insert() drawing its key number from the acknowledged counter.
LoadBeginOnAcknowledged(t) ==
    /\ w_pc[t] = "idle"
    /\ AckNext(t)
    /\ w_op' = [w_op EXCEPT ![t] = "LOAD"]
    /\ w_key' = [w_key EXCEPT ![t] = counter]
    /\ w_pc' = [w_pc EXCEPT ![t] = "retry"]
    /\ w_log' = [w_log EXCEPT ![t] = <<>>]
    /\ w_ret' = [w_ret EXCEPT ![t] = "none"]
    /\ UNCHANGED <<w_cfg, w_fields, w_cells>>

\* insert(): `self.key_sequencer.next()`
LoadBegin(t) ==
    /\ w_pc[t] = "idle"
    /\ CounterNext(t)
    /\ w_op' = [w_op EXCEPT ![t] = "LOAD"]
    /\ w_key' = [w_key EXCEPT ![t] = c_counter]
    /\ w_pc' = [w_pc EXCEPT ![t] = "retry"]
    /\ w_log' = [w_log EXCEPT ![t] = <<>>]
    /\ w_ret' = [w_ret EXCEPT ![t] = "none"]
    /\ UNCHANGED <<w_cfg, w_fields, w_cells>>

\* `for retry in 0..limits`: the loop goes on.
RetryContinues(retry, limits) == retry < limits

\* retry: one pass of the loop calls f, the backend's insert; Ok returns.
LoadAttempt(t) ==
    /\ w_pc[t] = "retry"
    /\ RetryContinues(Attempts(w_log[t]), w_cfg.retry_limit)
    /\ \/ Logged(t, "insert_ok") /\ Returned(t, "ok")
       \/ /\ Logged(t, "insert_err")
          /\ w_pc' = [w_pc EXCEPT ![t] = "sleep"]
          /\ UNCHANGED <<w_ret, w_key>>
    /\ UNCHANGED <<build, ackVars, ctrVars, seqVars, w_cfg, w_op, w_fields,
                   w_cells>>

\* retry: the sleep that ends a pass whose call failed.
LoadSleep(t) ==
    /\ w_pc[t] = "sleep"
    /\ Logged(t, "sleep")
    /\ w_pc' = [w_pc EXCEPT ![t] = "retry"]
    /\ UNCHANGED <<build, ackVars, ctrVars, seqVars, w_cfg, w_op, w_key,
                   w_fields, w_cells, w_ret>>

\* retry: the loop is over, `Err(.. exceeds retry limits ..)`.
LoadGiveUp(t) ==
    /\ w_pc[t] = "retry"
    /\ ~RetryContinues(Attempts(w_log[t]), w_cfg.retry_limit)
    /\ Returned(t, "retry_err")
    /\ UNCHANGED <<build, ackVars, ctrVars, seqVars, w_cfg, w_op, w_fields,
                   w_cells, w_log>>

\* One step of thread t inside insert().
LoadStep(t) ==
    \/ LoadBegin(t)
    \/ LoadAttempt(t)
    \/ LoadSleep(t)
    \/ LoadGiveUp(t)

\* ------------------------------------------------------ specifications
\* The acknowledged counter, used by NumThreads threads.
Init ==
    /\ build \in Builds
    /\ InitAck(StartSet)
    /\ CtrOff
    /\ SeqOff
    /\ WlOff

Next == \E t \in Threads : AckStep(t) /\ UNCHANGED wlVars

Spec == Init /\ [][Next]_vars

\* The acknowledged counter, used by one thread.
NextSingle == AckStep(1) /\ UNCHANGED wlVars

SpecSingle == Init /\ [][NextSingle]_vars

\* The plain counter, used by NumThreads threads.
InitCtr ==
    /\ build \in Builds
    /\ AckOff
    /\ InitCounter(StartSet)
    /\ SeqOff
    /\ WlOff

NextCtr == \E t \in Threads : (CounterNext(t) \/ CounterLast(t)) /\ UNCHANGED wlVars

SpecCounter == InitCtr /\ [][NextCtr]_vars

\* The sequential generator.
InitSequential ==
    /\ build \in Builds
    /\ AckOff
    /\ CtrOff
    /\ InitSeq
    /\ WlOff

NextSeq == SeqNext /\ UNCHANGED wlVars

SpecSeq == InitSequential /\ [][NextSeq]_vars

\* CoreWorkload::new: the acknowledged counter starts at record_count, the
\* load counter at insert_start.
InitWorkload(C) ==
    /\ build \in Builds
    /\ w_cfg \in {c \in C : Constructs(c, build)}
    /\ InitAck({RecordCount(w_cfg)})
    /\ InitCounter({w_cfg.insert_start})
    /\ SeqOff
    /\ WlIdle

Only(S) == [o \in OpSet |-> IF o \in S THEN 1 ELSE 0]

\* The defaults: Reads and Updates, the Reads the heavier.
DefaultMix == [o \in OpSet |-> IF o = "READ" THEN 3 ELSE IF o = "UPDATE" THEN 1 ELSE 0]

\* The proportions of the runs: every operation, the defaults, one
\* operation alone, the three that are neither Read nor Insert, and none.
Proportions ==
    { Only(OpSet), DefaultMix, Only({"READ"}), Only({"INSERT"}),
      Only({"UPDATE", "SCAN", "READMODIFYWRITE"}), Only({}) }

\* transaction() called by one thread; record_count 0 is the default (it
\* stands for the type's maximum), insert_start 0 too.
TxnConfigs ==
    [record_count : {0, 2}, insert_start : {0}, proportion : Proportions,
     retry_limit : {0, 1}, data_integrity : {FALSE},
     read_all_fields : {TRUE}, read_all_fields_by_name : {FALSE}]

InitTxn == InitWorkload(TxnConfigs)

NextTxn == TxnStep(1)

SpecTxn == InitTxn /\ [][NextTxn]_vars

\* Reads and ReadModifyWrites of one thread under data integrity, over a
\* table of two records, asking for one field or for all.
VerifyConfigs ==
    [record_count : {2}, insert_start : {0},
     proportion : {Only({"READ", "READMODIFYWRITE"})},
     retry_limit : {0}, data_integrity : {TRUE},
     read_all_fields : BOOLEAN, read_all_fields_by_name : {FALSE}]

InitVerify == InitWorkload(VerifyConfigs)

VerifyStep(t) ==
    \/ TxnBegin(t)
    \/ KeyDraw(t)
    \/ KeyCheck(t)
    \/ TxnRead(t)
    \/ TxnRmwRead(t)
    \/ TxnRmwUpdate(t)

NextVerify == VerifyStep(1)

SpecVerify == InitVerify /\ [][NextVerify]_vars

\* transaction() called by NumThreads threads under the default
\* record_count and insert_start, the mix being Reads and Inserts.
SharedConfigs ==
    [record_count : {0}, insert_start : {0}, proportion : {Only({"READ", "INSERT"})},
     retry_limit : {0}, data_integrity : {FALSE},
     read_all_fields : {TRUE}, read_all_fields_by_name : {FALSE}]

InitShared == InitWorkload(SharedConfigs)

ReadInsertStep(t) ==
    \/ TxnBegin(t)
    \/ KeyDraw(t)
    \/ KeyCheck(t)
    \/ TxnRead(t)
    \/ TxnNext(t)
    \/ TxnInsertDb(t)
    \/ TxnInsertAck(t)
    \/ TxnAckStep(t)
    \/ TxnInsertReturn(t)

NextShared == \E t \in Threads : ReadInsertStep(t)

SpecShared == InitShared /\ [][NextShared]_vars

\* insert() called by NumThreads threads, for the retry limits from the
\* default (0) up, the load starting at the first key number or at the
\* last one of the type.
MaxRetryLimit == 2

LoadConfigs ==
    [record_count : {0}, insert_start : {0, TypeMax}, proportion : {DefaultProportion},
     retry_limit : 0..MaxRetryLimit, data_integrity : {FALSE},
     read_all_fields : {TRUE}, read_all_fields_by_name : {FALSE}]

InitLoad == InitWorkload(LoadConfigs)

NextLoad == \E t \in Threads : LoadStep(t)

SpecLoad == InitLoad /\ [][NextLoad]_vars

\* insert() and transaction() called by one thread, one call after the
\* other, on a table of two records with every operation in the mix.
BothConfigs ==
    [record_count : {2}, insert_start : {0}, proportion : {Only(OpSet)},
     retry_limit : {1}, data_integrity : {FALSE},
     read_all_fields : {TRUE}, read_all_fields_by_name : {FALSE}]

InitBoth == InitWorkload(BothConfigs)

NextBoth == TxnStep(1) \/ LoadStep(1)

SpecBoth == InitBoth /\ [][NextBoth]_vars

\* ------------------------------------------------------ CoreWorkload::new
\* The names each `match` of CoreWorkload::new has an arm for; the arms of
\* "zipfian" and "histogram" are `unimplemented!()`.
FieldLengthNames == {"constant", "uniform"}
ScanLengthNames == {"uniform"}
RequestNames == {"uniform", "sequential"}
UnimplementedNames == {"zipfian", "histogram"}

\* One `match` on a distribution name: "ok", or the panic of its arm.
MatchName(name, supported, unimplemented, fallback) ==
    IF name \in supported THEN "ok"
    ELSE IF name \in unimplemented THEN "panic_unimplemented"
    ELSE fallback

\* `if record_count < insert_start + insert_count { panic!(..) }`, c being
\* insert_count.
InvalidCombination(cfg, c, b) == RecordCount(cfg) < Arith(cfg.insert_start + c, b)

\* CoreWorkload::new without the check of data integrity.
NewOutcomeUnchecked(cfg, b) ==
    LET fl == MatchName(cfg.field_length_distribution, FieldLengthNames,
                        UnimplementedNames, "panic_field_length")
        sl == MatchName(cfg.scan_length_distribution, ScanLengthNames,
                        {"zipfian"}, "panic_scan_length")
        rq == MatchName(cfg.request_distribution, RequestNames,
                        {"zipfian"}, "panic_request")
        c  == InsertCount(cfg, b)
    IN  IF fl # "ok" THEN fl
        ELSE IF sl # "ok" THEN sl
        ELSE IF c = PANIC THEN "panic_overflow"
        ELSE IF Arith(cfg.insert_start + c, b) = PANIC THEN "panic_overflow"
        ELSE IF InvalidCombination(cfg, c, b) THEN "panic_invalid"
        ELSE IF NewLimit(RecordCount(cfg), b) = PANIC THEN "panic_overflow"
        ELSE IF rq = "panic_unimplemented" THEN rq
        ELSE IF rq = "ok" /\ KeyUpper(cfg, b) = PANIC THEN "panic_overflow"
        ELSE IF rq # "ok" THEN rq
        ELSE "built"

\* CoreWorkload::new, in the order of the code: "built", or the panic that
\* ended the construction.
NewOutcome(cfg, b) ==
    LET fl == MatchName(cfg.field_length_distribution, FieldLengthNames,
                        UnimplementedNames, "panic_field_length")
        sl == MatchName(cfg.scan_length_distribution, ScanLengthNames,
                        {"zipfian"}, "panic_scan_length")
        rq == MatchName(cfg.request_distribution, RequestNames,
                        {"zipfian"}, "panic_request")
        c  == InsertCount(cfg, b)
    IN  IF fl # "ok" THEN fl
        ELSE IF sl # "ok" THEN sl
        ELSE IF c = PANIC THEN "panic_overflow"
        ELSE IF Arith(cfg.insert_start + c, b) = PANIC THEN "panic_overflow"
        ELSE IF InvalidCombination(cfg, c, b) THEN "panic_invalid"
        ELSE IF cfg.data_integrity /\ cfg.field_length_distribution # "constant"
             THEN "panic_integrity"
        ELSE IF NewLimit(RecordCount(cfg), b) = PANIC THEN "panic_overflow"
        ELSE IF rq = "panic_unimplemented" THEN rq
        ELSE IF rq = "ok" /\ KeyUpper(cfg, b) = PANIC THEN "panic_overflow"
        ELSE IF rq # "ok" THEN rq
        ELSE "built"

\* The configurations CoreWorkload::new is called with: supported,
\* unimplemented and unknown distribution names, data integrity on and off,
\* insert_start below, at and above record_count.
NewConfigs ==
    [record_count : {0, 2}, insert_start : {0, 2, 3},
     proportion : {DefaultMix}, retry_limit : {1},
     data_integrity : BOOLEAN,
     read_all_fields : {TRUE}, read_all_fields_by_name : {FALSE},
     field_length_distribution : {"constant", "uniform", "zipfian", "histogram", "other"},
     scan_length_distribution : {"uniform", "zipfian", "other"},
     request_distribution : {"uniform", "sequential", "zipfian", "other"}]

\* Before CoreWorkload::new is called.
InitNew ==
    /\ build \in Builds
    /\ w_cfg \in NewConfigs
    /\ AckOff
    /\ CtrOff
    /\ SeqUnused
    /\ w_new = "pending"
    /\ f_arg = <<>>
    /\ f_res = NoResult
    /\ w_pc = [t \in Threads |-> "idle"]
    /\ w_op = [t \in Threads |-> "none"]
    /\ w_key = [t \in Threads |-> 0]
    /\ w_fields = [t \in Threads |-> {}]
    /\ w_cells = [t \in Threads |-> NoRow]
    /\ w_log = [t \in Threads |-> <<>>]
    /\ w_ret = [t \in Threads |-> "none"]

\* CoreWorkload::new: it panics, or the engine is built with its two
\* counters (UsizeCounter::new(insert_start),
\* AcknowledgedUsizeCounter::new(record_count)).
WlNew ==
    /\ w_new = "pending"
    /\ w_new' = NewOutcome(w_cfg, build)
    /\ IF NewOutcome(w_cfg, build) = "built"
       THEN /\ c_start' = w_cfg.insert_start
            /\ c_counter' = w_cfg.insert_start
            /\ start' = RecordCount(w_cfg)
            /\ counter' = RecordCount(w_cfg)
            /\ limit' = NewLimit(RecordCount(w_cfg), build)
            /\ constructed' = TRUE
       ELSE UNCHANGED <<c_start, c_counter, start, counter, limit, constructed>>
    /\ UNCHANGED <<build, windows, writer, readers, pc, val, index, issued,
                   acked, dups, dupSurvived, overWindow, skipReader, c_hist,
                   c_last, s_ty, s_start, s_end, s_val, s_out, f_arg, f_res,
                   wlVars>>

\* insert() on the engine CoreWorkload::new returned.
BuiltLoadStep(t) == w_new = "built" /\ LoadStep(t)

NextNew == WlNew \/ BuiltLoadStep(1)

SpecNew == InitNew /\ [][NextNew]_vars

\* ------------------------------------------------- the uniform generator
\* A call of the code's function on f_arg has been made.
Called == f_res # NoResult

\* The engine and the generators unused, f_arg drawn from A.
InitFunction(A) ==
    /\ build \in Builds
    /\ AckOff
    /\ CtrOff
    /\ SeqUnused
    /\ WlOff
    /\ w_new = "built"
    /\ f_arg \in A
    /\ f_res = NoResult

\* Uniform::next with a range that is out of range (one past the upper bound).
UniformNextBeyond(lower, upper) ==
    IF lower > upper THEN {SEQ_PANIC} ELSE lower..(upper + 1)

\* Uniform::next, `thread_rng().gen_range(lower_bound..=upper_bound)`: the
\* values a call may return; gen_range panics on an empty range.
UniformNext(lower, upper) ==
    IF lower > upper THEN {SEQ_PANIC} ELSE lower..upper

\* The bounds new(lower_bound, upper_bound) is called with, <<lower, upper>>:
\* at the low end of the signed and of the unsigned type, around zero and
\* at the high end; ranges of one to four values, and the empty range.
UniformLowers == {TyMin("signed"), 0 - 1, 0, TypeMax - 3}
UniformArgs ==
    {a \in UniformLowers \X ((TyMin("signed") - 1)..TypeMax) :
        a[2] >= a[1] - 1 /\ a[2] <= a[1] + UniformWidth}

InitUniform == InitFunction(UniformArgs)

\* One more call of next().
UniformCall ==
    /\ \E v \in UniformNext(f_arg[1], f_arg[2]) : f_res' = f_res \cup {v}
    /\ UNCHANGED <<build, ackVars, ctrVars, s_ty, s_start, s_end, s_val, s_out,
                   w_new, f_arg, wlVars>>

NextUniform == UniformCall

SpecUniform == InitUniform /\ [][NextUniform]_vars

\* ------------------------------------------------------- build_key_name
InsertOrders == {"ordered", "hashed"}

KeyNameArgs == InsertOrders \X (0..MaxPadding) \X (0..(WordMod - 1))

InitKeyName == InitFunction(KeyNameArgs)

KeyNameCall ==
    /\ f_res' = f_res \cup {KeyName(f_arg[1], f_arg[2], f_arg[3])}
    /\ UNCHANGED <<build, ackVars, ctrVars, s_ty, s_start, s_end, s_val, s_out,
                   w_new, f_arg, wlVars>>

NextKeyName == KeyNameCall

SpecKeyName == InitKeyName /\ [][NextKeyName]_vars

\* --------------------------------------------- build_deterministic_value
\* Keys and field names: those of the engine, and ones with a character
\* outside ASCII (config.field_name_prefix is any string).
ValueKeys == {BuildKeyName(0), BuildKeyName(15), WideChar}
ValueFields == {FieldName(1), WideChar \o <<0>>, <<LETTER>> \o WideChar \o <<0>>}

ValueArgs == (0..MaxSize) \X ValueKeys \X ValueFields

InitValue == InitFunction(ValueArgs)

ValueCall ==
    /\ f_res' = f_res \cup {BuildDeterministicValue(f_arg[1], f_arg[2], f_arg[3])}
    /\ UNCHANGED <<build, ackVars, ctrVars, s_ty, s_start, s_end, s_val, s_out,
                   w_new, f_arg, wlVars>>

NextValue == ValueCall

SpecValue == InitValue /\ [][NextValue]_vars

\* ------------------------------------------------ the discrete generator
\* Lists of choices <<val, weight>>, the i-th of value "i", with weights that
\* are not negative and a sum above zero.
ChoiceLists ==
    LET lists == UNION {[1..n -> 0..MaxWeight] : n \in 1..MaxChoices}
    IN  {[i \in DOMAIN w |-> <<ToString(i), w[i]>>] : w \in {x \in lists : \E i \in DOMAIN x : x[i] > 0}}

InitDiscrete == InitFunction(ChoiceLists)

\* One call of next(): a target is drawn and the choice it falls on returned.
\* The history keeps the target next to the value.
DiscreteCall ==
    /\ Cardinality(f_res) < MaxDraws
    /\ \E target \in Targets(f_arg) :
           f_res' = f_res \cup {<<target, DiscreteNext(f_arg, target)>>}
    /\ UNCHANGED <<build, ackVars, ctrVars, s_ty, s_start, s_end, s_val, s_out,
                   w_new, f_arg, wlVars>>

NextDiscrete == DiscreteCall

SpecDiscrete == InitDiscrete /\ [][NextDiscrete]_vars

\* ------------------------------------------------------------- claims
\* No acknowledge() or last() call is in progress and no thread has panicked.
Quiescent == \A t \in Threads : pc[t] = "idle"

NoPanic == \A t \in Threads : pc[t] # "panicked"

\* The counter was built above the type's minimum and every issued number is
\* below the type's maximum: no arithmetic of the run has overflowed.
Plain == constructed /\ start >= 1 /\ \A v \in issued : start <= v /\ v < TypeMax

\* The largest k such that every number in [start, k] has been acknowledged,
\* start - 1 if start has not.
Prefix ==
    CHOOSE k \in (start - 1)..TypeMax :
        /\ \A n \in start..k : n \in acked
        /\ (k + 1) \notin acked

\* Numbers that are issued and not acknowledged.
Outstanding == issued \ acked

\* What holds of the runs in which nothing overflows, no number is
\* acknowledged twice and no number is issued above last() + W: the watermark
\* covers acknowledged numbers only, and no call panics.
PlainRunsCoverOnlyAcked ==
    (Plain /\ dups = 0 /\ ~overWindow)
        => /\ \A n \in start..limit : n \in issued /\ n \in acked
           /\ NoPanic

\* In runs without overflow the watermark never decreases.
PlainRunsMonotonic == [][(Plain /\ Plain') => limit' >= limit]_vars

\* Used by one thread, without overflow, with fewer than W numbers issued and
\* each acknowledged at most once, last() is the acknowledged prefix.
SingleThreadPrefixBelowWindow ==
    (Plain /\ dups = 0 /\ Cardinality(issued) < WINDOW_SIZE /\ Quiescent)
        => limit = Prefix

\* C1: when no number is acknowledged twice and no number is issued above
\* last() + W, every number in [start, last()] has been issued and
\* acknowledged, and last() is below every issued, unacknowledged number.
C1_WatermarkCoversOnlyAcked ==
    (constructed /\ dups = 0 /\ ~overWindow)
        => /\ \A n \in start..limit : n \in issued /\ n \in acked
           /\ \A v \in Outstanding : limit < v

\* C2: the watermark reaches an unacknowledged number only in a run in which
\* an acknowledge call has panicked.  (Stated for runs without overflow and
\* without a repeated acknowledgment.)
C2_OverflowIsFailFast ==
    (Plain /\ dups = 0 /\ \E v \in Outstanding : limit >= v) => ~NoPanic

\* C3: a second acknowledge(v), made after acknowledge(v) returned, panics.
\* (Stated for runs without overflow.)
C3_SecondAcknowledgePanics == Plain => ~dupSurvived

\* C4: the watermark never decreases.
C4_WatermarkMonotonic == [][limit' >= limit]_vars

\* C5: used by one thread, with at most W numbers issued and each acknowledged
\* at most once, between calls last() is the largest k such that every number
\* in [start, k] has been acknowledged.  (Stated for runs without overflow.)
C5_ContiguousPrefix ==
    (Plain /\ dups = 0 /\ Cardinality(issued) <= WINDOW_SIZE /\ Quiescent)
        => limit = Prefix

\* C6: once every acknowledge call has returned, last() is the largest k such
\* that every number in [start, k] has been acknowledged.  (Stated for runs
\* without overflow in which fewer than W numbers are issued, none is
\* acknowledged twice and no try_write failed because of a reader.)
C6_AdvanceNotLost ==
    (Plain /\ dups = 0 /\ ~skipReader /\ Cardinality(issued) < WINDOW_SIZE
        /\ Quiescent)
        => limit = Prefix

\* C7: the n calls of next() return start, start+1, ..., start+n-1 in this
\* order, and each thread's values are strictly increasing.
C7_NeverDoubleIssues ==
    /\ \A i \in 1..Len(c_hist) : c_hist[i][2] = c_start + i - 1
    /\ \A i, j \in 1..Len(c_hist) :
        (i < j /\ c_hist[i][1] = c_hist[j][1]) => c_hist[i][2] < c_hist[j][2]

\* C8: after N >= 1 calls of next(), last() returns the N-th issued value.
C8_LastIsLatestIssued ==
    (Len(c_hist) >= 1 /\ c_last # NONE) => c_last = c_hist[Len(c_hist)][2]

\* Without overflow checks last() returns the latest issued value.
ReleaseLastIsLatestIssued ==
    (build = "release" /\ Len(c_hist) >= 1 /\ c_last # NONE)
        => c_last = c_hist[Len(c_hist)][2]

\* The modulus of the formula, end - start + 1.
SeqLen == s_end - s_start + 1

\* C9: the i-th call of next() (i = 0, 1, ...) returns
\* start + (i mod (end - start + 1)).  (Stated for the unsigned type.)
C9_SequentialFormula ==
    s_ty = "unsigned"
        => \A i \in 1..Len(s_out) : s_out[i] = s_start + ((i - 1) % SeqLen)

\* For the unsigned type every value next() returns lies in [start, end].
UnsignedSequentialInRange ==
    s_ty = "unsigned"
        => \A i \in 1..Len(s_out) : s_start <= s_out[i] /\ s_out[i] <= s_end

\* C10: every value next() returns lies in [start, end], and N consecutive
\* calls, N <= end - start + 1, return pairwise distinct values.
C10_SequentialRangeDistinct ==
    /\ \A i \in 1..Len(s_out) : s_start <= s_out[i] /\ s_out[i] <= s_end
    /\ \A i, j \in 1..Len(s_out) :
        (i < j /\ j - i < SeqLen) => s_out[i] # s_out[j]

\* ------------------------------------------------- claims on the engine
\* Thread t is a Read, Update or ReadModifyWrite whose next_key_num has
\* accepted w_key[t] and whose backend calls are not over.
Addresses(t) ==
    /\ w_op[t] \in {"READ", "UPDATE", "READMODIFYWRITE"}
    /\ w_pc[t] \in {"db", "rmw_update"}

\* Thread u is an Insert transaction that has drawn w_key[u] and has not
\* entered acknowledge().
InsertInFlight(u) == w_op[u] = "INSERT" /\ w_pc[u] \in {"db", "ack"}

\* C11: a Read, Update or ReadModifyWrite never addresses a key number that
\* an Insert transaction has drawn and not yet acknowledged (the key it
\* accepted was at or below last()).
C11_NeverReadsUnacknowledged ==
    \A t, u \in Threads :
        Addresses(t) /\ InsertInFlight(u) => w_key[t] # w_key[u]

\* The events of an Insert transaction that ran to its end, the backend's
\* insert having returned r.
InsertLog(r) == <<"next", r, "ack">>

\* C12: an Insert transaction draws its key number from the acknowledged
\* counter, calls the backend's insert, and only then acknowledges exactly
\* that key number, after a success and after a failure alike; what it
\* returns is the backend's result.
C12_InsertAcknowledgesAfterBackend ==
    \A t \in Threads :
        w_op[t] = "INSERT" =>
            /\ \E r \in {"insert_ok", "insert_err"} :
                  \E n \in 0..3 : w_log[t] = SubSeq(InsertLog(r), 1, n)
            /\ w_pc[t] \in {"acking", "idle", "dead"} => Len(w_log[t]) = 3
            /\ InAck(t) => w_pc[t] = "acking" /\ val[t] = w_key[t] /\ val[t] \in issued
            /\ w_ret[t] = "ok" => w_log[t] = InsertLog("insert_ok")
            /\ w_ret[t] = "backend_err" => w_log[t] = InsertLog("insert_err")
            /\ w_ret[t] \in {"ok", "backend_err", "panic"}
                  => w_pc[t] \in {"idle", "dead"}

\* An Insert transaction whose backend call failed has acknowledged its key
\* number and returned the backend's error.
C12_Witness ==
    \E t \in Threads :
        /\ w_op[t] = "INSERT"
        /\ w_ret[t] = "backend_err"
        /\ w_log[t] = InsertLog("insert_err")
        /\ w_key[t] = 0
        /\ acked # {}

\* C13: insert() under insertion_retry_limit = L calls the backend's insert
\* at least once and at most 1 + L times; it returns Ok as soon as a call
\* succeeds, and its terminating error only after the first call and the L
\* retries have all failed.
C13_InsertRetryBudget ==
    \A t \in Threads :
        w_op[t] = "LOAD" =>
            /\ Attempts(w_log[t]) <= 1 + w_cfg.retry_limit
            /\ w_ret[t] # "none" => Attempts(w_log[t]) >= 1
            /\ w_ret[t] = "ok" => w_log[t][Len(w_log[t])] = "insert_ok"
            /\ w_ret[t] = "retry_err" =>
                  /\ Attempts(w_log[t]) = 1 + w_cfg.retry_limit
                  /\ \A i \in 1..Len(w_log[t]) : w_log[t][i] # "insert_ok"

\* C14: the retry loop sleeps only between two attempts: every sleep follows
\* a failed attempt and is followed by the next attempt, so a call that has
\* returned did not end on a sleep.
C14_SleepOnlyBetweenAttempts ==
    \A t \in Threads :
        w_op[t] = "LOAD" =>
            /\ \A i \in 1..Len(w_log[t]) :
                  w_log[t][i] = "sleep" => i > 1 /\ w_log[t][i - 1] = "insert_err"
            /\ w_ret[t] # "none" /\ Len(w_log[t]) > 0
                  => w_log[t][Len(w_log[t])] # "sleep"

\* The failed calls of the backend's insert in a log.
Failures(log) == Cardinality({i \in 1..Len(log) : log[i] = "insert_err"})

\* C17: a failed backend insert is retried as the retry policy says, in
\* insert() and in an Insert transaction alike: a call that ends in an error
\* has made the first attempt and insertion_retry_limit retries.
C17_InsertFailureRetried ==
    \A t \in Threads :
        w_op[t] \in {"LOAD", "INSERT"} /\ w_ret[t] \in {"retry_err", "backend_err"}
            => Failures(w_log[t]) = 1 + w_cfg.retry_limit

\* The calls into the backend a log holds, in order.
BackendCalls(log) == SelectSeq(log, LAMBDA e : e \notin {"next", "ack", "sleep"})

\* Thread t's latest transaction is over (it returned or it panicked).
TxnOver(t) == w_op[t] \in OpSet /\ w_ret[t] # "none"

\* The one call of each transaction that makes one.
OneCall(op) ==
    IF op = "READ" THEN {<<"read_ok">>, <<"read_err">>}
    ELSE IF op = "UPDATE" THEN {<<"update_ok">>, <<"update_err">>}
    ELSE IF op = "INSERT" THEN {<<"insert_ok">>, <<"insert_err">>}
    ELSE {<<"scan_ok">>, <<"scan_err">>}

\* C15 as stated: every transaction, Read, Update, Insert, Scan or
\* ReadModifyWrite, issues exactly one call into the backend.
C15_ExactlyOneBackendCall ==
    \A t \in Threads : TxnOver(t) => Len(BackendCalls(w_log[t])) = 1

\* C15, amended: a Read, Update, Insert or Scan transaction issues exactly
\* one call into the backend, of its own kind; a ReadModifyWrite issues one
\* read and, when the read succeeded, one update after it.
C15_OneCallButReadModifyWrite ==
    \A t \in Threads :
        /\ TxnOver(t) /\ w_op[t] # "READMODIFYWRITE"
              => BackendCalls(w_log[t]) \in OneCall(w_op[t])
        /\ TxnOver(t) /\ w_op[t] = "READMODIFYWRITE"
              => BackendCalls(w_log[t]) \in
                    {<<"read_err">>, <<"read_ok", "update_ok">>, <<"read_ok", "update_err">>}
        /\ w_op[t] \in OpSet => Len(BackendCalls(w_log[t])) <= 2

\* A ReadModifyWrite has returned Ok after its two calls.
C15_Witness ==
    /\ w_op[1] = "READMODIFYWRITE"
    /\ w_ret[1] = "ok"
    /\ BackendCalls(w_log[1]) = <<"read_ok", "update_ok">>

\* The failed calls into the backend.
BackendErrors == {"read_err", "update_err", "scan_err"}

\* C16: in a Read, Update, Scan or ReadModifyWrite a failed backend call is
\* the transaction's last event and its error is what the transaction
\* returns, at once: no retry and no further call follow; a ReadModifyWrite
\* whose read failed issues no update.
C16_BackendErrorsPropagate ==
    \A t \in Threads :
        w_op[t] \in {"READ", "UPDATE", "SCAN", "READMODIFYWRITE"} =>
            \A i \in 1..Len(w_log[t]) :
                w_log[t][i] \in BackendErrors =>
                    /\ i = Len(w_log[t])
                    /\ w_ret[t] = "backend_err"
                    /\ w_pc[t] = "idle"

\* A ReadModifyWrite whose read failed has returned the error without an
\* update.
C16_Witness ==
    /\ w_op[1] = "READMODIFYWRITE"
    /\ w_ret[1] = "backend_err"
    /\ w_log[1] = <<"read_err">>

\* C20: transaction() dispatches only operations whose proportion is above
\* zero: with the Read proportion alone above zero every transaction is a
\* Read, with the Insert proportion alone every one is an Insert.
C20_OnlyConfiguredOperations ==
    \A t \in Threads :
        /\ w_op[t] \in OpSet \cup {"none"}
        /\ w_op[t] \in OpSet => w_cfg.proportion[w_op[t]] > 0
        /\ w_op[t] \in OpSet /\ w_cfg.proportion = Only({"READ"}) => w_op[t] = "READ"
        /\ w_op[t] \in OpSet /\ w_cfg.proportion = Only({"INSERT"}) => w_op[t] = "INSERT"

\* Under the Insert proportion alone an Insert transaction has run to its
\* end.
C20_Witness ==
    /\ w_cfg.proportion = Only({"INSERT"})
    /\ w_op[1] = "INSERT"
    /\ w_ret[1] \in {"ok", "backend_err"}

\* The step ends a Read or ReadModifyWrite of thread t whose read succeeded,
\* under data integrity; the row is w_cells'[t], the key number w_key[t].
VerifiedReturn(t) ==
    /\ w_cfg.data_integrity
    /\ w_op[t] \in {"READ", "READMODIFYWRITE"}
    /\ w_pc[t] \in {"db", "rmw_update"}
    /\ w_ret'[t] # "none"
    /\ \E i \in 1..Len(w_log'[t]) : w_log'[t][i] = "read_ok"

\* The update of a ReadModifyWrite failed.
UpdateFailed(log) == \E i \in 1..Len(log) : log[i] = "update_err"

\* Two strings differ in at least one byte.
Differs(a, b) == Len(a) # Len(b) \/ \E i \in 1..Len(a) : a[i] # b[i]

\* The row lacks an asked field, or holds for one a value that differs from
\* the deterministic value of the key and the field.
Corrupt(key, fields, cells) ==
    \E f \in fields :
        \/ f \notin DOMAIN cells
        \/ Differs(cells[f], BuildDeterministicValue(FieldLength, key, FieldName(f)))

\* C18: under data integrity, a Read or ReadModifyWrite whose read returned
\* for every asked field exactly the deterministic value returns Ok.
C18_CorrectRowVerifies ==
    [][\A t \in Threads :
          /\ VerifiedReturn(t)
          /\ ~UpdateFailed(w_log'[t])
          /\ ~Corrupt(BuildKeyName(w_key[t]), w_fields'[t], w_cells'[t])
          => w_ret'[t] = "ok"]_vars

\* C19 as stated: under data integrity, a Read or ReadModifyWrite whose read
\* returned a row that lacks an asked field or holds a differing value
\* returns the verification failure.
C19_CorruptRowIsVerificationFailure ==
    [][\A t \in Threads :
          /\ VerifiedReturn(t)
          /\ Corrupt(BuildKeyName(w_key[t]), w_fields'[t], w_cells'[t])
          => w_ret'[t] = "verify_err"]_vars

\* C19, amended: such a transaction returns an error value, never Ok and
\* never a panic: the verification failure, or, in a ReadModifyWrite whose
\* update (which comes before the verification) failed, the update's error.
C19_CorruptRowIsAnError ==
    [][\A t \in Threads :
          /\ VerifiedReturn(t)
          /\ Corrupt(BuildKeyName(w_key[t]), w_fields'[t], w_cells'[t])
          => w_ret'[t] = IF UpdateFailed(w_log'[t]) THEN "backend_err" ELSE "verify_err"]_vars

\* A Read of every field got a row that holds them all (one of them with a
\* differing value, then) and returned the verification failure.
C19_Witness ==
    /\ w_cfg.data_integrity
    /\ w_op[1] = "READ"
    /\ w_fields[1] = Fields
    /\ DOMAIN w_cells[1] = Fields
    /\ w_log[1] = <<"read_ok">>
    /\ w_ret[1] = "verify_err"

\* C21: in an insert-only workload the key number an Insert transaction
\* draws is greater than that of every Insert acknowledged before it
\* started (one thread runs the transactions: what is acknowledged while
\* its Insert is in flight was acknowledged before the Insert started).
C21_InsertKeysIncrease ==
    \A t \in Threads :
        w_cfg.proportion = Only({"INSERT"}) /\ InsertInFlight(t)
            => \A v \in acked : w_key[t] > v

\* A distribution name of the configuration that the engine does not
\* support, or data integrity asked for without the constant field length.
ConfigurationError(cfg) ==
    \/ cfg.field_length_distribution \notin {"constant", "uniform"}
    \/ cfg.scan_length_distribution # "uniform"
    \/ cfg.request_distribution \notin {"uniform", "sequential"}
    \/ cfg.data_integrity /\ cfg.field_length_distribution # "constant"

\* No call of insert() or transaction() has started.
NoOperationYet ==
    /\ \A t \in Threads : w_op[t] = "none" /\ w_pc[t] = "idle"
    /\ c_hist = <<>>
    /\ issued = {}

\* C22: a configuration error is fatal at construction: CoreWorkload::new
\* panics, no engine is built, and no operation has run or ever runs.
C22_ConfigurationErrorsAreFatal ==
    /\ w_new = "pending" => NoOperationYet
    /\ ConfigurationError(w_cfg) =>
          /\ w_new # "built"
          /\ NoOperationYet
          /\ ~constructed

\* CoreWorkload::new was called with data integrity and the uniform field
\* length (every name supported) and panicked.
C22_Witness ==
    /\ w_cfg.data_integrity
    /\ w_cfg.field_length_distribution = "uniform"
    /\ w_cfg.scan_length_distribution = "uniform"
    /\ w_cfg.request_distribution = "uniform"
    /\ w_new = "panic_integrity"

\* C23: a configuration whose insert_start lies above record_count (so that
\* record_count < insert_start + insert_count for every insert_count) is
\* rejected by CoreWorkload::new.
C23_InvalidCombinationRejected ==
    /\ ~ConfigurationError(w_cfg)
    /\ w_cfg.insert_start > RecordCount(w_cfg)
    /\ w_new # "pending"
    => w_new # "built"

\* The `invalid combination` panic is never raised.
InvalidCombinationNeverRaised == w_new # "panic_invalid"

\* C24: for lower <= upper every value next() returns lies in
\* [lower, upper] (both bounds are among the values it can return).
C24_UniformInRange ==
    f_arg[1] <= f_arg[2] => \A v \in f_res : f_arg[1] <= v /\ v <= f_arg[2]

\* Over a range of more than one value, calls have returned the lower and
\* the upper bound.
C24_Witness ==
    /\ f_arg[1] < f_arg[2]
    /\ {f_arg[1], f_arg[2]} \subseteq f_res

\* ------------------------------------------------- claims on key names
\* The number a string of decimal digits stands for.
RECURSIVE Parse(_)
Parse(s) == IF s = <<>> THEN 0 ELSE 10 * Parse(SubSeq(s, 1, Len(s) - 1)) + s[Len(s)]

\* s is the decimal representation of n, left-padded with zeros to at least
\* width characters and no further.
PaddedDecimal(s, n, width) ==
    /\ Len(s) >= 1
    /\ Len(s) >= width
    /\ \A i \in 1..Len(s) : s[i] \in 0..9
    /\ Parse(s) = n
    /\ (Len(s) > width /\ Len(s) > 1) => s[1] # 0

StartsWithPrefix(s, size, key, field) ==
    LET p == (key \o <<COLON>>) \o field
        n == IF size < Len(p) THEN size ELSE Len(p)
    IN  Len(s) >= n /\ SubSeq(s, 1, n) = SubSeq(p, 1, n)

\* C26: build_deterministic_value(size, key, field) returns the same string
\* on every call with the same arguments, of exactly size bytes for every
\* size >= 0, starting with the prefix of "key:field" that fits.
C26_DeterministicValue ==
    /\ Cardinality(f_res) <= 1
    /\ \A s \in f_res :
        /\ s # Panicked
        /\ Len(s) = f_arg[1]
        /\ StartsWithPrefix(s, f_arg[1], f_arg[2], f_arg[3])

\* With a key and a field name of ASCII characters the value is as C26 says.
Ascii(s) == \A i \in 1..Len(s) : s[i] \notin {LEAD, CONT}

DeterministicValueOfAscii ==
    (Ascii(f_arg[2]) /\ Ascii(f_arg[3])) => C26_DeterministicValue

\* A call on ASCII arguments has returned a value cut inside "key:field".
DeterministicValueOfAsciiWitness ==
    /\ Ascii(f_arg[2]) /\ Ascii(f_arg[3])
    /\ f_arg[1] < Len(f_arg[2]) + 1 + Len(f_arg[3])
    /\ Called

\* ------------------------------------ further claims on the window
\* Thread t's acknowledge call panics in this step on finding its slot marked.
AckPanicsOnSlot(t) == pc[t] = "idle" /\ pc'[t] = "panicked"

\* Numbers issued for which no acknowledge call has returned yet.
Unacknowledged ==
    {v \in issued : v \notin acked \/ \E u \in Threads : InAck(u) /\ val[u] = v}

\* C27: in a run without overflow in which no number is acknowledged twice
\* (and no last() reader has made an acknowledge call skip its advance), an
\* acknowledge call panics on its slot only when more than W numbers are
\* issued and unacknowledged at that moment.
C27_NoSpuriousOverflow ==
    [][\A t \in Threads :
         (AckPanicsOnSlot(t) /\ Plain /\ dups' = 0 /\ ~skipReader)
             => Cardinality(Unacknowledged) > WINDOW_SIZE]_vars

\* Thread t is inside the watermark-advance section of acknowledge().
Advancing(t) == pc[t] \in {"ack_scan", "ack_clear", "ack_write"}

\* The slots thread t's advance has examined so far: index runs from
\* limit + 1, and at "ack_clear" the slot of index has been loaded too.
Examined(t) ==
    IF pc[t] = "ack_clear" THEN (index[t] - limit) % TypeMod
    ELSE (index[t] - limit - 1) % TypeMod

\* C28: at most one thread is inside the advance section, and it holds the
\* write lock alone; a thread inside acknowledge() can always take its next
\* step (it never waits for the lock); an advance examines at most W - 1
\* slots.
C28_AdvanceExclusiveNonBlocking ==
    /\ \A t, u \in Threads : (Advancing(t) /\ Advancing(u)) => t = u
    /\ \A t \in Threads : Advancing(t) => (writer = t /\ readers = {})
    /\ \A t \in Threads :
         InAck(t) => ENABLED (AckTryWrite(t) \/ AckScan(t) \/ AckClear(t) \/ AckWrite(t))
    /\ \A t \in Threads :
         /\ pc[t] = "ack_clear" => Examined(t) \in 1..(WINDOW_SIZE - 1)
         /\ pc[t] \in {"ack_scan", "ack_write"} => Examined(t) \in 0..(WINDOW_SIZE - 1)

\* One thread has examined W - 1 slots while another is about to try the lock.
C28_Witness ==
    \E t, u \in Threads :
        /\ pc[t] = "ack_clear" /\ Examined(t) = WINDOW_SIZE - 1
        /\ pc[u] = "ack_try"

\* Thread t's acknowledge call returns in this step without advancing,
\* its try_write having failed.
SkipsAdvance(t) == pc[t] = "ack_try" /\ pc'[t] = "idle"

\* C29: an acknowledge call skips the watermark advance only when another
\* acknowledge call holds the advance right at that moment, never because
\* of a thread reading last().
C29_SkipsOnlyBehindAcknowledger ==
    [][\A t \in Threads :
         SkipsAdvance(t) => (writer # 0 /\ writer # t /\ Advancing(writer))]_vars

\* ------------------------------------- claims on the discrete generator
\* The sum of the weights of the first i choices.
RECURSIVE Cumulative(_, _)
Cumulative(ch, i) == IF i = 0 THEN 0 ELSE Cumulative(ch, i - 1) + ch[i][2]

\* C30: for weights that are not negative with a sum above zero and every
\* target in [0, sum), next() returns the first choice in list order whose
\* cumulative weight is strictly above the target; that choice has a weight
\* above zero, the unreachable failure is not reached, and a list of one
\* choice returns that choice.
C30_DiscreteInverseCdf ==
    \A r \in f_res :
        LET target == r[1]
        IN  /\ r[2] # "unreachable"
            /\ \E out \in 1..Len(f_arg) :
                   /\ r[2] = f_arg[out][1]
                   /\ Cumulative(f_arg, out) > target
                   /\ \A j \in 1..(out - 1) : Cumulative(f_arg, j) <= target
                   /\ f_arg[out][2] > 0
            /\ Len(f_arg) = 1 => r[2] = f_arg[1][1]

\* A call has passed over a choice of weight zero on a target equal to the
\* cumulative weight before it.
C30_Witness ==
    \E r \in f_res :
        \E j \in 1..Len(f_arg) :
            /\ \E out \in (j + 1)..Len(f_arg) : r[2] = f_arg[out][1]
            /\ f_arg[j][2] = 0
            /\ j > 1
            /\ Cumulative(f_arg, j) = r[1]

\* ------------------------------------------- claims on the load phase
\* The key number thread t's latest next() on the load counter returned.
LatestDrawn(t) ==
    LET own == {i \in 1..Len(c_hist) : c_hist[i][1] = t}
    IN  c_hist[CHOOSE i \in own : \A j \in own : j <= i][2]

\* Thread t is inside insert(), past the draw of its key number.
InLoad(t) == w_pc[t] \in {"retry", "sleep"}

\* Within a call every attempt is made on the key number drawn at its start,
\* and the successful attempt is the last backend call.
OneKeyPerInsert ==
    \A t \in Threads :
        /\ InLoad(t) => w_key[t] = LatestDrawn(t)
        /\ w_op[t] = "LOAD" =>
              \A i \in 1..Len(w_log[t]) : w_log[t][i] = "insert_ok" => i = Len(w_log[t])

\* C31: within one insert() call every backend attempt uses the key number
\* drawn once at the start of the call and none follows a successful one;
\* the key numbers of the insert() calls, of all threads, are insert_start,
\* insert_start + 1, ...: distinct and increasing.
C31_LoadKeysIncrease ==
    /\ OneKeyPerInsert
    /\ \A i \in 1..Len(c_hist) : c_hist[i][2] = c_start + (i - 1)

\* While the key numbers stay below the maximum of the type they are as
\* C31 says.
LoadKeysBelowMaximum ==
    (c_start + Len(c_hist) - 1 <= TypeMax) => C31_LoadKeysIncrease

\* How many times the event e stands in a log.
Count(log, e) == Cardinality({i \in 1..Len(log) : log[i] = e})

\* C32: an Insert or a Scan transaction that is over has acknowledged,
\* exactly once, the key number it drew from the acknowledged counter.
C32_DrawnKeysAcknowledged ==
    \A t \in Threads :
        (TxnOver(t) /\ w_op[t] \in {"INSERT", "SCAN"})
            => Count(w_log[t], "next") = 1 /\ Count(w_log[t], "ack") = 1

\* An Insert transaction that is over has acknowledged its key number once.
InsertDrawnKeyAcknowledged ==
    \A t \in Threads :
        (TxnOver(t) /\ w_op[t] = "INSERT")
            => Count(w_log[t], "next") = 1 /\ Count(w_log[t], "ack") = 1

\* Thread t's next_key_num rejects the key number it drew and draws again.
DrawsAgain(t) == w_pc[t] = "key_last" /\ w_pc'[t] = "key"

\* C33: in a workload with record_count above insert_start every key number
\* the key chooser draws is at or below last(), so next_key_num never draws
\* a second time.
C33_SingleDraw ==
    [][RecordCount(w_cfg) > w_cfg.insert_start
          => \A t \in Threads : ~DrawsAgain(t)]_vars

\* While no number issued by the acknowledged counter has wrapped around,
\* next_key_num never draws a second time.
SingleDrawBelowMaximum ==
    [][(\A v \in issued : v >= start) => \A t \in Threads : ~DrawsAgain(t)]_vars

\* ------------------------------------ claims on what the calls change
\* The call thread t is in, or has just left, is a load-mode insert() or a
\* Read, Update or ReadModifyWrite transaction.
LeavesCounterAlone(op) == op \in {"LOAD", "READ", "UPDATE", "READMODIFYWRITE"}

\* C34: no step of a load-mode insert() or of a Read, Update or
\* ReadModifyWrite transaction changes the issue counter, a window slot or
\* the watermark of the acknowledged counter; a step that issues from the
\* acknowledged counter changes neither a window slot nor the watermark.
C34_CallsLeaveCounterAlone ==
    [][/\ LeavesCounterAlone(w_op'[1]) => UNCHANGED <<counter, issued, windows, acked, limit>>
       /\ counter' # counter => UNCHANGED <<windows, acked, limit>>]_vars

\* A load-mode insert() has returned after an Insert transaction moved the
\* watermark, and the acknowledged counter is as that transaction left it.
C34_Witness ==
    /\ w_op[1] = "LOAD"
    /\ w_ret[1] = "ok"
    /\ acked # {}
    /\ limit >= start
    /\ c_hist # <<>>

\* ------------------------------------------ claims on the window slots
\* A slot is marked exactly when it is the slot of an acknowledged number
\* above the watermark.
SlotsMarkAckedAboveWatermark ==
    \A s \in Slots :
        windows[s] <=> \E n \in acked : n > limit /\ SlotOf(n) = s

\* C35: in a quiescent state of a run in which no number is acknowledged
\* twice and no number is issued above last() + W, a slot is marked exactly
\* when it is the slot of an acknowledged number above the watermark; the
\* slots of the numbers at or below the watermark are cleared.
C35_WindowSlots ==
    (constructed /\ Quiescent /\ NoPanic /\ dups = 0 /\ ~overWindow)
        => SlotsMarkAckedAboveWatermark

\* In the runs without overflow the slots are as C35 says.
PlainRunsWindowSlots ==
    (Plain /\ Quiescent /\ NoPanic /\ dups = 0 /\ ~overWindow)
        => SlotsMarkAckedAboveWatermark

\* ------------------------------------------- claims on construction
\* C36: new(start) succeeds for every start of the type, the minimum
\* included, and until a number is acknowledged last() is below start.
C36_ConstructionBelowStart ==
    /\ constructed
    /\ acked = {} => limit < start

\* For a start above the minimum of the type new(start) is as C36 says.
ConstructionAboveMinimum ==
    start > 0 => C36_ConstructionBelowStart

=============================================================================
